---- MODULE Spec2Model ----
(***************************************************************************)
(* Per-client long polling (syosifov/longpoll).                            *)
(*                                                                         *)
(* The model follows the per-client server listed in                       *)
(* src/.github/copilot-instructions.md, lines 149-315: the registry        *)
(* clientChannels (client id -> *ClientState) guarded by mu, the buffered  *)
(* channel of capacity 1 of every ClientState, and the handlers            *)
(* subscribeHandler, pollHandler, publishHandler and the goroutine         *)
(* cleanUpInactiveClients.                                                 *)
(*                                                                         *)
(* Every section of code that runs under mu is one action (the mutex makes *)
(* it atomic with respect to every other section under mu).  What a        *)
(* handler does after it released mu (the select statements on the         *)
(* channel) is a separate action, so that the other goroutines interleave  *)
(* between the two.                                                        *)
(*                                                                         *)
(* The channel operations are the ones of the Go runtime.  A select finds  *)
(* its cases ready and takes one of them, or it parks the goroutine on the *)
(* channel's queue of receivers; a send hands its value to the first       *)
(* parked receiver, if there is one, and buffers it otherwise; close wakes *)
(* every parked receiver with the zero value.  So a parked select is       *)
(* resolved by whichever of the send, the close and the timer comes first. *)
(*                                                                         *)
(* Time is counted in seconds.  A timer never fires early; the scheduler   *)
(* gives no bound on how late a goroutine runs.                            *)
(***************************************************************************)
EXTENDS Integers, Sequences, FiniteSets

\* ---------------------------------------------------------------- bounds
\* the requests (poll, publish and subscribe together) of one run
MaxRequests == 3
\* the clock ticks MaxTicks times in one run
MaxTicks == 5

\* ------------------------------------------------------ program constants
\* var clientTimeout = 1 * time.Minute
clientTimeout == 60
\* time.After(30 * time.Second) in pollHandler
pollTimeout == 30
\* time.Sleep(1 * time.Minute) in cleanUpInactiveClients
sweepInterval == 60
\* make(chan Event, 1)
ChannelCap == 1

\* the clock advances by one poll wait at a time
TickStep == pollTimeout
MaxTime == MaxTicks * TickStep

\* ------------------------------------------------------------ input sets
\* the client ids, in the order in which a run first uses them
ClientList == <<"A", "B">>
Clients == {ClientList[i] : i \in 1..Len(ClientList)}
\* c.Param("clientId"): a registered client id, or the empty string
ClientIds == Clients \cup {""}
\* req.Message: a message, or the empty string (the field is missing)
\* the messages, in the order in which a run first uses them
MessageList == <<"hi", "yo">>
Messages == {MessageList[i] : i \in 1..Len(MessageList)}
Bodies == Messages \cup {""}
Pollers == 1..MaxRequests
Publishers == 1..MaxRequests
Times == {t \in 0..MaxTime : t % TickStep = 0}

VARIABLES
    now,             \* the clock (time.Now, time.Since, time.After), seconds
    clientChannels,  \* the registry: client id -> ClientState, or NoClient
    chans,           \* the heap of channels: chans[c][k] is the k-th channel made for c
    polls,           \* the poll requests (one goroutine each)
    pubs,            \* the publish requests (one goroutine each)
    arrived,         \* number of requests that have arrived
    sweepWake,       \* when the sweeper's time.Sleep ends
    replaced         \* history: the channels whose entry a subscribe overwrote

vars == <<now, clientChannels, chans, polls, pubs, arrived, sweepWake, replaced>>

\* --------------------------------------------------------------- the data
\* A channel is a heap object; it is named by the client id it was made for
\* and its rank k among the channels made for that id.  NoChan names none.
NoChan == 0
NoClient == [Channel |-> NoChan, LastSeen |-> -1]

\* type Event struct { Message; Time }.  The field pub is history: the publish
\* request that built the Event (0 for an Event no publish built).
Event(m, t, q) == [Message |-> m, Time |-> t, pub |-> q]
\* the zero value of Event, which a receive from a closed, empty channel yields
ZeroEvent == Event("", 0, 0)
\* no Event at all (the request returned none)
NoEvent == Event("", -1, -1)

\* &ClientState{Channel: clientChan, LastSeen: time.Now()}
ClientState(k, t) == [Channel |-> k, LastSeen |-> t]

\* make(chan Event, 1): a new open channel with an empty buffer and no
\* goroutine parked on it (recvq: the parked poll requests, first come first)
MakeChan == [buf |-> <<>>, closed |-> FALSE, recvq |-> <<>>]

\* A request that returned keeps its client id, its response and, for a
\* publish, its message; the locals of the handler are gone.
NewPoll == [pc |-> "new", clientId |-> "", ch |-> NoChan, deadline |-> 0,
            code |-> "", event |-> NoEvent]
\* at: history, when the request arrived
NewPublish == [pc |-> "new", clientId |-> "", Message |-> "", ch |-> NoChan,
               code |-> "", at |-> 0]

\* requests are numbered in their order of arrival
NextPoll(p) ==
    /\ arrived < MaxRequests
    /\ polls[p].pc = "new"
    /\ \A r \in 1..(p - 1) : polls[r].pc # "new"
NextPublish(q) ==
    /\ arrived < MaxRequests
    /\ pubs[q].pc = "new"
    /\ \A r \in 1..(q - 1) : pubs[r].pc # "new"

\* Client ids and messages are opaque: a run that uses them in another order
\* is this run with the names exchanged.  So a request names the i-th id only
\* when the ids before it are in use, and likewise for the messages.
UsedClient(c) ==
    \/ clientChannels[c] # NoClient
    \/ chans[c] # <<>>
    \/ \E p \in Pollers : polls[p].clientId = c
    \/ \E q \in Publishers : pubs[q].clientId = c
UsedMessage(m) == \E q \in Publishers : pubs[q].Message = m
ClientInOrder(c) ==
    c = "" \/ \A i \in 1..Len(ClientList) :
                 ClientList[i] = c => \A j \in 1..(i - 1) : UsedClient(ClientList[j])
MessageInOrder(m) ==
    m = "" \/ \A i \in 1..Len(MessageList) :
                 MessageList[i] = m => \A j \in 1..(i - 1) : UsedMessage(MessageList[j])

Init ==
    /\ now = 0
    /\ clientChannels = [c \in Clients |-> NoClient]
    /\ chans = [c \in Clients |-> <<>>]
    /\ polls = [p \in Pollers |-> NewPoll]
    /\ pubs = [q \in Publishers |-> NewPublish]
    /\ arrived = 0
    /\ sweepWake = sweepInterval
    /\ replaced = {}

\* The registry lock mu.  Every section of code between mu.Lock()/mu.RLock()
\* and the matching unlock is one action of this model, so between two actions
\* mu is held by a request only if that request keeps it over a wait.
\* (a poll that keeps mu until it returns)
HoldsMu_WhileWaiting(p) == polls[p].pc \in {"select", "parked"}
\* pollHandler calls mu.Unlock() before time.After and the select: a poll past
\* its lookup does not hold mu
HoldsMu(p) == FALSE
\* mu.Lock() and mu.RLock() return
MuFree == \A p \in Pollers : ~HoldsMu(p)

\* client, ok := clientChannels[clientId]
Present(c) == clientChannels[c] # NoClient

\* clientChannels[clientId] = &ClientState{make(chan Event, 1), time.Now()}
Install(c) == [clientChannels EXCEPT ![c] = ClientState(Len(chans[c]) + 1, now)]
Alloc(c) == [chans EXCEPT ![c] = Append(@, MakeChan)]

\* ------------------------------------------------------------ subscribe
\* subscribeHandler: a new channel and a new ClientState are installed under
\* mu, whatever the registry held for clientId.
subscribeHandler(c) ==
    /\ arrived < MaxRequests
    /\ ClientInOrder(c)
    /\ MuFree
    /\ arrived' = arrived + 1
    /\ chans' = Alloc(c)
    /\ clientChannels' = Install(c)
    /\ replaced' = IF Present(c)
                   THEN replaced \cup {<<c, clientChannels[c].Channel>>}
                   ELSE replaced
    /\ UNCHANGED <<now, polls, pubs, sweepWake>>

\* ----------------------------------------------------------------- poll
\* pollHandler, the section under mu: the entry of c is created with a new
\* channel when the registry has none (!ok), otherwise its LastSeen is
\* refreshed.
\* (a lookup-or-create that misses the lookup: it always creates)
PollCreates_Always(c) == TRUE
PollCreates(c) == ~Present(c)

\* (a poll that leaves LastSeen of an entry it finds as it is)
PollRegistry_NoRefresh(c) == IF PollCreates(c) THEN Install(c) ELSE clientChannels
\* the registry after the section under mu
PollRegistry(c) ==
    IF PollCreates(c)
    THEN Install(c)
    ELSE [clientChannels EXCEPT ![c].LastSeen = now]

PollChans(c) == IF PollCreates(c) THEN Alloc(c) ELSE chans

\* a poll that arrives at `now` can see its timer fire within the run
TimerInRun == \E t \in Times : t >= now + pollTimeout

\* pollHandler up to mu.Unlock() and time.After
PollLookup(p, c) ==
    /\ NextPoll(p)
    /\ ClientInOrder(c)
    /\ TimerInRun
    /\ c # "" => MuFree
    /\ IF c = ""
       THEN /\ polls' = [polls EXCEPT ![p] = [@ EXCEPT !.pc = "done", !.code = "BadRequest"]]
            /\ UNCHANGED <<clientChannels, chans>>
       ELSE /\ clientChannels' = PollRegistry(c)
            /\ chans' = PollChans(c)
            /\ polls' = [polls EXCEPT ![p] = [@ EXCEPT !.pc = "select",
                                                       !.clientId = c,
                                                       !.ch = PollRegistry(c)[c].Channel,
                                                       !.deadline = now + pollTimeout]]
    /\ arrived' = arrived + 1
    /\ UNCHANGED <<now, pubs, sweepWake, replaced>>

\* case event := <-client.Channel is ready: an Event is buffered, or the
\* channel is closed
CanReceive(c, k) == Len(chans[c][k].buf) > 0 \/ chans[c][k].closed

\* what the receive yields: the oldest buffered Event, or the zero value when
\* the channel is closed and drained
Received(c, k) ==
    IF Len(chans[c][k].buf) > 0 THEN Head(chans[c][k].buf) ELSE ZeroEvent

\* (a receive that leaves the Event in the buffer)
AfterReceive_Keeps(c, k) == chans
\* the channel after the receive: the received Event has left the buffer
AfterReceive(c, k) ==
    IF Len(chans[c][k].buf) > 0
    THEN [chans EXCEPT ![c][k].buf = Tail(@)]
    ELSE chans

\* c.JSON(http.StatusOK, event)
Delivered(r, e) ==
    [r EXCEPT !.pc = "done", !.code = "OK", !.ch = NoChan, !.deadline = 0, !.event = e]
\* c.JSON(http.StatusNoContent, nil)
TimedOut(r) ==
    [r EXCEPT !.pc = "done", !.code = "NoContent", !.ch = NoChan, !.deadline = 0]

\* the select is reached and finds case event := <-client.Channel ready
PollReceive(p) ==
    /\ polls[p].pc = "select"
    /\ CanReceive(polls[p].clientId, polls[p].ch)
    /\ polls' = [polls EXCEPT ![p] =
          Delivered(@, Received(polls[p].clientId, polls[p].ch))]
    /\ chans' = AfterReceive(polls[p].clientId, polls[p].ch)
    /\ UNCHANGED <<now, clientChannels, pubs, arrived, sweepWake, replaced>>

\* (a timer that never fires; a timer that fires as soon as it is started)
TimerFired_Never(p) == FALSE
TimerFired_Early(p) == now >= polls[p].deadline - pollTimeout
\* case <-timeout is ready: 30 seconds have passed since time.After
TimerFired(p) == now >= polls[p].deadline

\* the select is reached and finds no case ready: the goroutine parks on the
\* channel
PollPark(p) ==
    /\ polls[p].pc = "select"
    /\ ~CanReceive(polls[p].clientId, polls[p].ch)
    /\ ~TimerFired(p)
    /\ polls' = [polls EXCEPT ![p].pc = "parked"]
    /\ chans' = [chans EXCEPT ![polls[p].clientId][polls[p].ch].recvq = Append(@, p)]
    /\ UNCHANGED <<now, clientChannels, pubs, arrived, sweepWake, replaced>>

\* the queue q without the request p
Without(q, p) == SelectSeq(q, LAMBDA x : x # p)

\* case <-timeout: the select finds the timer fired, or the timer wakes the
\* parked goroutine, which leaves the channel's queue
PollTimeout(p) ==
    /\ polls[p].pc \in {"select", "parked"}
    /\ TimerFired(p)
    /\ polls' = [polls EXCEPT ![p] = TimedOut(@)]
    /\ chans' = [chans EXCEPT ![polls[p].clientId][polls[p].ch].recvq = Without(@, p)]
    /\ UNCHANGED <<now, clientChannels, pubs, arrived, sweepWake, replaced>>

\* -------------------------------------------------------------- publish
\* (a lookup that takes every client id for registered)
PublishFinds_Always(c) == TRUE
\* client, ok := clientChannels[clientId] under mu.RLock
PublishFinds(c) == Present(c)

\* publishHandler up to mu.RUnlock() and the test of ok: the two checks of the
\* request, then the lookup under the read lock
PublishLookup(q, c, m) ==
    /\ NextPublish(q)
    /\ ClientInOrder(c)
    /\ MessageInOrder(m)
    /\ (c # "" /\ m # "") => MuFree
    /\ pubs' = [pubs EXCEPT ![q] =
          IF c = "" \/ m = ""
          THEN [@ EXCEPT !.pc = "done", !.code = "BadRequest"]
          ELSE IF ~PublishFinds(c)
          THEN [@ EXCEPT !.pc = "done", !.clientId = c, !.Message = m,
                         !.code = "NotFound", !.at = now]
          ELSE [@ EXCEPT !.pc = "send", !.clientId = c, !.Message = m,
                         !.ch = clientChannels[c].Channel, !.at = now]]
    /\ arrived' = arrived + 1
    /\ UNCHANGED <<now, clientChannels, chans, polls, sweepWake, replaced>>

\* a send on a closed channel panics, also in a select with a default case;
\* gin.Default() installs Recovery, which answers 500
SendPanics(c, k) == chans[c][k].closed

\* a poll is parked on the channel: the send hands the Event to it
HandsOff(c, k) == Len(chans[c][k].recvq) > 0

\* (a send that never finds the buffer full)
CanSend_Always(c, k) == TRUE
\* case client.Channel <- Event{...} is ready: a receiver is parked, or the
\* buffer has room
CanSend(c, k) == HandsOff(c, k) \/ Len(chans[c][k].buf) < ChannelCap

\* the outcome of the select of publishHandler
SendCode(c, k) ==
    IF SendPanics(c, k) THEN "InternalServerError"
    ELSE IF CanSend(c, k) THEN "OK"
    ELSE "ServiceUnavailable"

\* the channels after the send
AfterSend(c, k, e) ==
    IF SendCode(c, k) # "OK" THEN chans
    ELSE IF HandsOff(c, k) THEN [chans EXCEPT ![c][k].recvq = Tail(@)]
    ELSE [chans EXCEPT ![c][k].buf = Append(@, e)]

\* (a send that gives a copy of the Event to every parked receiver)
PollsAfterSend_All(c, k, e) ==
    IF SendCode(c, k) = "OK" /\ HandsOff(c, k)
    THEN [p \in Pollers |->
            IF \E i \in 1..Len(chans[c][k].recvq) : chans[c][k].recvq[i] = p
            THEN Delivered(polls[p], e)
            ELSE polls[p]]
    ELSE polls
\* the poll requests after the send: the first parked receiver has the Event
PollsAfterSend(c, k, e) ==
    IF SendCode(c, k) = "OK" /\ HandsOff(c, k)
    THEN [polls EXCEPT ![Head(chans[c][k].recvq)] = Delivered(@, e)]
    ELSE polls

\* (an Event built without its message)
Stamped_NoMessage(q) == Event("", now, q)
\* Event{Message: req.Message, Time: time.Now()}
Stamped(q) == Event(pubs[q].Message, now, q)

\* select { case client.Channel <- Event{...}: 200; default: 503 }
PublishSend(q) ==
    /\ pubs[q].pc = "send"
    /\ pubs' = [pubs EXCEPT ![q] =
          [@ EXCEPT !.pc = "done", !.ch = NoChan,
                    !.code = SendCode(pubs[q].clientId, pubs[q].ch)]]
    /\ chans' = AfterSend(pubs[q].clientId, pubs[q].ch, Stamped(q))
    /\ polls' = PollsAfterSend(pubs[q].clientId, pubs[q].ch, Stamped(q))
    /\ UNCHANGED <<now, clientChannels, arrived, sweepWake, replaced>>

\* ---------------------------------------------------------------- sweep
\* (a sweep that takes an entry exactly as old as the threshold for idle)
Inactive_Eager(c) == Present(c) /\ now - clientChannels[c].LastSeen >= clientTimeout
\* (a sweep that waits for twice the threshold)
Inactive_Late(c) == Present(c) /\ now - clientChannels[c].LastSeen > 2 * clientTimeout
\* time.Since(clientState.LastSeen) > clientTimeout
Inactive(c) == Present(c) /\ now - clientChannels[c].LastSeen > clientTimeout

\* the entries one pass of the loop deletes
Evicted == {c \in Clients : Inactive(c)}

\* delete(clientChannels, clientId) for every inactive client
SweepRegistry == [c \in Clients |-> IF c \in Evicted THEN NoClient ELSE clientChannels[c]]

\* close(clientState.Channel) for every inactive client
SweepChans ==
    [c \in Clients |->
        IF c \in Evicted
        THEN [chans[c] EXCEPT ![clientChannels[c].Channel] =
                 [@ EXCEPT !.closed = TRUE, !.recvq = <<>>]]
        ELSE chans[c]]

\* close wakes the polls parked on the channel: their receive yields the zero
\* value
WokenByClose(p) ==
    /\ polls[p].pc = "parked"
    /\ polls[p].clientId \in Evicted
    /\ polls[p].ch = clientChannels[polls[p].clientId].Channel

SweepPolls ==
    [p \in Pollers |-> IF WokenByClose(p) THEN Delivered(polls[p], ZeroEvent) ELSE polls[p]]

\* cleanUpInactiveClients: one iteration of the loop, from the end of its
\* time.Sleep to mu.Unlock(); the next Sleep starts at once
cleanUpInactiveClients ==
    /\ now >= sweepWake
    /\ MuFree
    /\ clientChannels' = SweepRegistry
    /\ chans' = SweepChans
    /\ polls' = SweepPolls
    /\ sweepWake' = now + sweepInterval
    /\ UNCHANGED <<now, pubs, arrived, replaced>>

\* ---------------------------------------------------------------- time
Tick ==
    /\ now + TickStep <= MaxTime
    /\ now' = now + TickStep
    /\ UNCHANGED <<clientChannels, chans, polls, pubs, arrived, sweepWake, replaced>>

Next ==
    \/ \E c \in Clients : subscribeHandler(c)
    \/ \E p \in Pollers, c \in ClientIds : PollLookup(p, c)
    \/ \E p \in Pollers : PollReceive(p)
    \/ \E p \in Pollers : PollPark(p)
    \/ \E p \in Pollers : PollTimeout(p)
    \/ \E q \in Publishers, c \in ClientIds, m \in Bodies : PublishLookup(q, c, m)
    \/ \E q \in Publishers : PublishSend(q)
    \/ cleanUpInactiveClients
    \/ Tick

Spec == Init /\ [][Next]_vars

\* The same program under prompt scheduling: a goroutine that can run does so
\* before the clock advances.  No time passes between the lookup of a handler
\* and its select, a parked poll whose timer fired returns at once, and the
\* sweeper runs as soon as its Sleep ends.
Prompt ==
    /\ \A p \in Pollers : polls[p].pc # "select"
    /\ \A p \in Pollers : polls[p].pc = "parked" => ~TimerFired(p)
    /\ \A q \in Publishers : pubs[q].pc # "send"
    /\ now < sweepWake

TimedTick == Prompt /\ Tick

TimedNext ==
    \/ \E c \in Clients : subscribeHandler(c)
    \/ \E p \in Pollers, c \in ClientIds : PollLookup(p, c)
    \/ \E p \in Pollers : PollReceive(p)
    \/ \E p \in Pollers : PollPark(p)
    \/ \E p \in Pollers : PollTimeout(p)
    \/ \E q \in Publishers, c \in ClientIds, m \in Bodies : PublishLookup(q, c, m)
    \/ \E q \in Publishers : PublishSend(q)
    \/ cleanUpInactiveClients
    \/ TimedTick

TimedSpec == Init /\ [][TimedNext]_vars

\* The asynchronous program with the fairness the runtime gives: the clock
\* advances, and a poll whose timer fired is resumed.
LiveSpec == Spec /\ WF_vars(Tick) /\ \A p \in Pollers : WF_vars(PollTimeout(p))

\* ------------------------------------------------------------ properties
Waiting(p) == polls[p].pc \in {"select", "parked"}
Channels(c) == 1..Len(chans[c])
\* a mailbox that no sweep closed and no subscribe replaced
Live(c, k) == ~chans[c][k].closed /\ <<c, k>> \notin replaced

\* C1: concurrent first-time polls for one clientId create one entry and one
\* mailbox: every mailbox made for a clientId that was neither evicted (closed)
\* nor replaced by a subscribe is the one mailbox the registry holds for that
\* clientId, and any two polls that wait for the same clientId on such
\* mailboxes wait on that same mailbox.
C1_SingleMailbox ==
    /\ \A c \in Clients : \A k \in Channels(c) :
          Live(c, k) => clientChannels[c].Channel = k
    /\ \A p, r \in Pollers :
          (/\ Waiting(p) /\ Waiting(r)
           /\ polls[p].clientId = polls[r].clientId
           /\ Live(polls[p].clientId, polls[p].ch)
           /\ Live(polls[r].clientId, polls[r].ch))
          => polls[p].ch = polls[r].ch

\* two polls for a clientId that had no entry both wait, on the only mailbox
\* ever made for it
C1_Witness ==
    \E p, r \in Pollers :
        /\ p # r /\ Waiting(p) /\ Waiting(r)
        /\ polls[p].clientId = polls[r].clientId
        /\ polls[p].ch = polls[r].ch
        /\ Len(chans[polls[p].clientId]) = 1
        /\ Live(polls[p].clientId, polls[p].ch)

\* the mailbox the registry holds for c
Registered(c, k) == Present(c) /\ clientChannels[c].Channel = k
\* the publish request q makes its deposit attempt in this step
Deposits(q) == pubs[q].pc = "send" /\ pubs'[q].pc = "done"
\* the poll request p returns in this step
Returns(p) == polls[p].pc \in {"select", "parked"} /\ polls'[p].pc = "done"
Pending(c, k) == Len(chans[c][k].buf) > 0

PubDone(q) == pubs[q].pc = "done"
PollDone(p) == polls[p].pc = "done"
\* the poll requests that returned the Event of the publish request q
DeliveredTo(q) == {p \in Pollers : PollDone(p) /\ polls[p].code = "OK" /\ polls[p].event.pub = q}

\* C3: a publish with a well-formed request ends with exactly one of Accepted
\* (200), Rejected(NotFound) (404) and Rejected(MailboxFull) (503), under every
\* interleaving with polls and sweeps.
C3_PublishOutcome ==
    \A q \in Publishers :
        (PubDone(q) /\ pubs[q].code # "BadRequest")
        => pubs[q].code \in {"OK", "NotFound", "ServiceUnavailable"}

\* C4: an Event whose publish was Accepted is delivered at most once, and it
\* is not lost: as long as no poll returned it, it is pending in a mailbox
\* that is open or that a poll still waits on.
C4_NoLossNoDup ==
    \A q \in Publishers :
        (PubDone(q) /\ pubs[q].code = "OK")
        => /\ Cardinality(DeliveredTo(q)) <= 1
           /\ \/ DeliveredTo(q) # {}
              \/ \E k \in Channels(pubs[q].clientId) :
                    /\ \E i \in 1..Len(chans[pubs[q].clientId][k].buf) :
                          chans[pubs[q].clientId][k].buf[i].pub = q
                    /\ \/ ~chans[pubs[q].clientId][k].closed
                       \/ \E p \in Pollers :
                             /\ Waiting(p)
                             /\ polls[p].clientId = pubs[q].clientId
                             /\ polls[p].ch = k

\* C5: when a sweep closes the mailbox a poll waits on, the poll does not
\* return Delivered (200): neither if the close wakes it, nor if it reaches
\* its select after the close and finds the mailbox closed and empty.
C5_EvictedPollNotDelivered ==
    [][\A p \in Pollers :
          /\ (/\ Waiting(p)
              /\ ~chans[polls[p].clientId][polls[p].ch].closed
              /\ chans'[polls[p].clientId][polls[p].ch].closed
              /\ PollDone(p)')
             => polls'[p].code # "OK"
          /\ (/\ Returns(p)
              /\ chans[polls[p].clientId][polls[p].ch].closed
              /\ ~Pending(polls[p].clientId, polls[p].ch))
             => polls'[p].code # "OK"]_vars

\* C6: every poll with a non-empty clientId returns, whatever the publishes,
\* the other polls and the sweeps do, provided its timer fires; it returns one
\* outcome, Delivered (200) or TimedOut (204), and the outcome stays.
C6_PollReturns ==
    /\ \A p \in Pollers : Waiting(p) ~> PollDone(p)
    /\ [](\A p \in Pollers :
            (PollDone(p) /\ polls[p].clientId # "")
            => polls[p].code \in {"OK", "NoContent"})
    /\ [][\A p \in Pollers : PollDone(p) => polls'[p] = polls[p]]_vars

\* polls have returned with each of the two outcomes
C6_Witness ==
    \E p, r \in Pollers :
        /\ PollDone(p) /\ polls[p].code = "NoContent" /\ polls[p].clientId # ""
        /\ PollDone(r) /\ polls[r].code = "OK" /\ polls[r].event.pub \in Publishers

\* the poll request p is parked and no poll was parked on its mailbox before it
FirstParked(p) ==
    /\ polls[p].pc = "parked"
    /\ Head(chans[polls[p].clientId][polls[p].ch].recvq) = p
\* the publish request q deposits into the mailbox of the poll request p and
\* is Accepted
AcceptedOn(q, p) ==
    /\ Deposits(q)
    /\ pubs'[q].code = "OK"
    /\ pubs[q].clientId = polls[p].clientId
    /\ pubs[q].ch = polls[p].ch
\* the poll request p returns Delivered with the message of the publish q
GetsMessage(p, q) ==
    /\ polls'[p].pc = "done"
    /\ polls'[p].code = "OK"
    /\ polls'[p].event.pub = q
    /\ polls'[p].event.Message = pubs[q].Message

Holds(c, k, q) == Pending(c, k) /\ chans[c][k].buf[1].pub = q

\* C8 as stated, for the poll that follows: when a publish was Accepted for a
\* clientId and its Event is still pending, a poll that arrives for the
\* clientId at the time the publish was called waits on the mailbox that holds
\* the Event (and so returns it).
C8_FollowingPollFinds ==
    [][\A p \in Pollers : \A q \in Publishers : \A c \in Clients :
          (/\ polls[p].pc = "new" /\ polls'[p].pc = "select"
           /\ polls'[p].clientId = c
           /\ PubDone(q) /\ pubs[q].code = "OK" /\ pubs[q].clientId = c
           /\ pubs[q].at = now
           /\ \E k \in Channels(c) : Holds(c, k, q))
          => \A k \in Channels(c) : Holds(c, k, q) => polls'[p].ch = k]_vars

\* C9: a publish with a well-formed request for a clientId that has no entry
\* is answered NotFound (404) at its lookup, and the step changes no entry, no
\* mailbox and no poll.
C9_NotFoundNoEntry ==
    [][\A q \in Publishers :
          (/\ pubs[q].pc = "new" /\ pubs'[q].pc # "new"
           /\ pubs'[q].code # "BadRequest"
           /\ ~Present(pubs'[q].clientId))
          => /\ pubs'[q].pc = "done"
             /\ pubs'[q].code = "NotFound"
             /\ clientChannels' = clientChannels
             /\ chans' = chans
             /\ polls' = polls]_vars

\* a publish was answered NotFound for a clientId that still has no entry and
\* never had a mailbox, while another clientId has an entry
C9_Witness ==
    \E q \in Publishers : \E d \in Clients :
        /\ PubDone(q) /\ pubs[q].code = "NotFound"
        /\ ~Present(pubs[q].clientId)
        /\ chans[pubs[q].clientId] = <<>>
        /\ d # pubs[q].clientId /\ Present(d)

\* the sweeper runs in this step
Sweeps == sweepWake' # sweepWake

\* C10: a sweep removes every entry whose LastSeen is older than the idle
\* threshold and closes its mailbox; a poll for a clientId without entry
\* creates a new entry with LastSeen = now and a new, open, empty mailbox, on
\* which it waits; and a poll only ever returns an Event that was pending in
\* its own mailbox or that a publish hands to it there (so no Event pending
\* in the evicted mailbox reaches a poll that arrived after the sweep).
C10_IdleEvictedThenFresh ==
    [][/\ Sweeps
          => \A c \in Clients :
                (Present(c) /\ now - clientChannels[c].LastSeen > clientTimeout)
                => /\ clientChannels'[c] = NoClient
                   /\ chans'[c][clientChannels[c].Channel].closed
       /\ \A p \in Pollers :
            /\ (/\ polls[p].pc = "new" /\ polls'[p].pc = "select"
                /\ ~Present(polls'[p].clientId))
               => /\ polls'[p].ch = Len(chans[polls'[p].clientId]) + 1
                  /\ Len(chans'[polls'[p].clientId]) = polls'[p].ch
                  /\ chans'[polls'[p].clientId][polls'[p].ch] =
                        [buf |-> <<>>, closed |-> FALSE, recvq |-> <<>>]
                  /\ clientChannels'[polls'[p].clientId] =
                        [Channel |-> polls'[p].ch, LastSeen |-> now]
            /\ (Returns(p) /\ polls'[p].code = "OK" /\ polls'[p].event.pub \in Publishers)
               => \/ /\ Pending(polls[p].clientId, polls[p].ch)
                     /\ polls'[p].event = chans[polls[p].clientId][polls[p].ch].buf[1]
                  \/ AcceptedOn(polls'[p].event.pub, p)]_vars

\* a clientId was evicted with an Event pending in its closed mailbox, and a
\* later poll for it waits on the new mailbox of the new entry
C10_Witness ==
    \E c \in Clients : \E p \in Pollers :
        /\ Len(chans[c]) = 2
        /\ chans[c][1].closed /\ Pending(c, 1)
        /\ Registered(c, 2) /\ ~Pending(c, 2)
        /\ Waiting(p) /\ polls[p].clientId = c /\ polls[p].ch = 2
\* the Event built by the publish request q is in some mailbox
Buffered(q) ==
    \E c \in Clients : \E k \in Channels(c) :
        \E i \in 1..Len(chans[c][k].buf) : chans[c][k].buf[i].pub = q

\* C11: the Event of an Accepted publish is returned by at most one poll, and
\* once a poll returned it, it is in no mailbox any more; the receive that
\* returns it leaves its mailbox empty.
C11_ConsumedOnce ==
    /\ [](\A q \in Publishers :
             /\ Cardinality(DeliveredTo(q)) <= 1
             /\ DeliveredTo(q) # {} => ~Buffered(q))
    /\ [][\A p \in Pollers :
             (/\ Returns(p) /\ polls'[p].code = "OK"
              /\ Pending(polls[p].clientId, polls[p].ch))
             => chans'[polls[p].clientId][polls[p].ch].buf = <<>>]_vars

\* two polls of one clientId: one returned the Event of an Accepted publish,
\* the other one timed out without it
C11_Witness ==
    \E p, r \in Pollers : \E q \in Publishers :
        /\ p # r /\ polls[p].clientId = polls[r].clientId
        /\ pubs[q].code = "OK"
        /\ DeliveredTo(q) = {p}
        /\ PollDone(r) /\ polls[r].code = "NoContent"
\* C12 as stated, for the Event left in the mailbox: when a poll of a clientId
\* returned TimedOut and the Event of an Accepted publish for the clientId is
\* pending (the timed-out poll did not consume it), the next poll that arrives
\* for the clientId waits on the mailbox that holds the Event (and so returns
\* it).
C12_LeftForNextPoll ==
    [][\A p, r \in Pollers : \A q \in Publishers : \A c \in Clients :
          (/\ p = r + 1
           /\ polls[p].pc = "new" /\ polls'[p].pc = "select"
           /\ polls'[p].clientId = c
           /\ PollDone(r) /\ polls[r].code = "NoContent" /\ polls[r].clientId = c
           /\ PubDone(q) /\ pubs[q].code = "OK" /\ pubs[q].clientId = c
           /\ \E k \in Channels(c) : Holds(c, k, q))
          => \A k \in Channels(c) : Holds(c, k, q) => polls'[p].ch = k]_vars
\* the time at which the wait of the poll request p began
WaitBegan(p) == polls[p].deadline - pollTimeout
\* the mailbox the poll request p waits on is open after this step
StaysOpen(p) == ~chans'[polls[p].clientId][polls[p].ch].closed

\* the Event the publish request q deposited, where it is now: in a mailbox
\* or in the answer of a poll
EventsOf(q) ==
    {chans[c][k].buf[1] : <<c, k>> \in
        {x \in Clients \X (1..MaxRequests) :
            x[2] \in Channels(x[1]) /\ Holds(x[1], x[2], q)}}
    \cup {polls[r].event : r \in DeliveredTo(q)}

\* C13 as stated: a poll returns TimedOut, and not before its 30 s have
\* passed, when its mailbox is not closed and every publish Accepted for its
\* clientId was answered, its Event deposited, before the wait began.
C13_OnlyTimedOut ==
    [][\A p \in Pollers :
          (/\ Returns(p)
           /\ StaysOpen(p)
           /\ \A q \in Publishers :
                 (pubs'[q].code = "OK" /\ pubs'[q].clientId = polls[p].clientId)
                 => /\ PubDone(q)
                    /\ \A e \in EventsOf(q) : e.Time < WaitBegan(p))
          => /\ polls'[p].code = "NoContent"
             /\ now >= polls[p].deadline]_vars

\* C13 as amended: a waiting poll whose mailbox holds no Event and is not
\* closed, in a step in which no publish is Accepted on that mailbox, only
\* parks or returns TimedOut; and a poll returns TimedOut only when its 30 s
\* have passed, leaving every mailbox untouched.
C13_TimedOutWhenQuiet ==
    [][\A p \in Pollers :
          /\ (/\ Waiting(p) /\ polls'[p] # polls[p]
              /\ ~Pending(polls[p].clientId, polls[p].ch)
              /\ StaysOpen(p)
              /\ \A q \in Publishers : ~AcceptedOn(q, p))
             => \/ polls'[p] = [polls[p] EXCEPT !.pc = "parked"]
                \/ polls'[p].pc = "done" /\ polls'[p].code = "NoContent"
          /\ (Returns(p) /\ polls'[p].code = "NoContent")
             => /\ now >= polls[p].deadline
                /\ \A c \in Clients : \A k \in Channels(c) :
                      chans'[c][k].buf = chans[c][k].buf]_vars

\* a poll returned TimedOut for a clientId that still has its entry and for
\* which no publish was ever Accepted
C13_Witness ==
    \E p \in Pollers :
        /\ PollDone(p) /\ polls[p].code = "NoContent"
        /\ Present(polls[p].clientId)
        /\ now >= pollTimeout
        /\ \A q \in Publishers :
              pubs[q].clientId = polls[p].clientId => pubs[q].code # "OK"
\* the poll requests parked on the mailbox the publish request q sends to
ParkedOn(q) ==
    {chans[pubs[q].clientId][pubs[q].ch].recvq[i] :
        i \in 1..Len(chans[pubs[q].clientId][pubs[q].ch].recvq)}
\* the publish request q is Accepted in this step with several polls parked on
\* its mailbox
AcceptedWithSeveral(q) ==
    /\ Deposits(q)
    /\ pubs'[q].code = "OK"
    /\ Cardinality(ParkedOn(q)) >= 2

Age(c) == now - clientChannels[c].LastSeen

\* C15: a sweep removes the entries older than the idle threshold, strictly,
\* and leaves every other entry as it is, with its mailbox, the Event pending
\* in it and the polls of its clientId; it is one step, in which no request
\* does its lookup, and only a sweep removes an entry.
C15_SweepExactlyIdle ==
    [][/\ Sweeps
          => /\ \A c \in Clients :
                   IF Present(c) /\ Age(c) > clientTimeout
                   THEN ~Present(c)'
                   ELSE /\ clientChannels'[c] = clientChannels[c]
                        /\ chans'[c] = chans[c]
                        /\ \A p \in Pollers :
                              polls[p].clientId = c => polls'[p] = polls[p]
             /\ pubs' = pubs /\ arrived' = arrived
       /\ \A c \in Clients : (Present(c) /\ ~Present(c)') => Sweeps]_vars

\* a sweep has just run: it removed one entry and kept another that is exactly
\* as old as the threshold, with the Event pending in its mailbox
C15_Witness ==
    \E c, d \in Clients :
        /\ sweepWake = now + sweepInterval
        /\ ~Present(c) /\ Len(chans[c]) = 1 /\ chans[c][1].closed
        /\ Present(d) /\ Age(d) = clientTimeout
        /\ Pending(d, clientChannels[d].Channel)
\* the poll request p does its lookup-or-create for c in this step
PollArrives(p, c) ==
    polls[p].pc = "new" /\ polls'[p].pc = "select" /\ polls'[p].clientId = c
\* the publish request q takes a step
PublishSteps(q) == pubs'[q] # pubs[q]

\* C16: a poll leaves the entry of its clientId with LastSeen = now, whether
\* it creates the entry or finds it, and changes no other entry; a step of a
\* publish, whatever its answer, changes no entry.
C16_LastSeenByPollOnly ==
    [][/\ \A p \in Pollers : \A c \in Clients :
            PollArrives(p, c)
            => /\ Present(c)'
               /\ clientChannels'[c].LastSeen = now
               /\ Present(c) => clientChannels'[c].Channel = clientChannels[c].Channel
               /\ \A d \in Clients \ {c} : clientChannels'[d] = clientChannels[d]
       /\ \A q \in Publishers :
            PublishSteps(q) => clientChannels' = clientChannels]_vars

\* a poll found the entry made earlier and refreshed it (the Event pending in
\* the first mailbox of the clientId is older than LastSeen), and the publish
\* was Accepted without touching LastSeen
C16_Witness ==
    \E c \in Clients : \E p \in Pollers : \E q \in Publishers :
        /\ Registered(c, 1) /\ Pending(c, 1)
        /\ chans[c][1].buf[1].pub = q
        /\ chans[c][1].buf[1].Time < clientChannels[c].LastSeen
        /\ Waiting(p) /\ polls[p].clientId = c /\ polls[p].ch = 1
        /\ WaitBegan(p) = clientChannels[c].LastSeen
        /\ pubs[q].code = "OK"
C18_DeliveredWasPublished ==
    \A p \in Pollers :
        (PollDone(p) /\ polls[p].code = "OK")
        => /\ polls[p].event # ZeroEvent
           /\ polls[p].event.pub \in Publishers
           /\ pubs[polls[p].event.pub].code = "OK"
           /\ pubs[polls[p].event.pub].clientId = polls[p].clientId
           /\ pubs[polls[p].event.pub].Message = polls[p].event.Message
\* C19: with timers served on time, a sweep never removes the entry whose
\* mailbox a poll waits on, no poll ever waits on a closed mailbox, and the
\* entry a waiting poll refreshed is never older than the poll's wait of 30 s,
\* which is less than the idle threshold.
C19_NoEvictionUnderWaiter ==
    /\ pollTimeout < clientTimeout
    /\ [](\A p \in Pollers :
             Waiting(p)
             => /\ ~chans[polls[p].clientId][polls[p].ch].closed
                /\ Registered(polls[p].clientId, polls[p].ch)
                   => Age(polls[p].clientId) <= pollTimeout)
    /\ [][\A p \in Pollers :
             (Sweeps /\ Waiting(p) /\ Registered(polls[p].clientId, polls[p].ch))
             => /\ clientChannels'[polls[p].clientId] = clientChannels[polls[p].clientId]
                /\ polls'[p] = polls[p]]_vars

\* the sweeper has just run, 30 s after a poll began to wait: it removed the
\* idle entry of another clientId and kept the entry of the waiting poll
C19_Witness ==
    \E p \in Pollers : \E d \in Clients :
        /\ polls[p].pc = "parked"
        /\ Registered(polls[p].clientId, polls[p].ch)
        /\ Age(polls[p].clientId) = pollTimeout
        /\ sweepWake = now + sweepInterval
        /\ d # polls[p].clientId
        /\ ~Present(d) /\ Len(chans[d]) = 1 /\ chans[d][1].closed
\* a subscribe for c runs in this step
Subscribes(c) == Len(chans'[c]) = Len(chans[c]) + 1 /\ polls' = polls

\* C20: a subscribe installs an entry with LastSeen = now and a new, empty
\* mailbox, also when the clientId has an entry; after it, a poll that waited
\* on the registered mailbox of the clientId still waits on the registered
\* mailbox, and an Event that was pending in the registered mailbox is pending
\* in the registered mailbox (so the next poll returns it).
C20_SubscribeKeepsMailbox ==
    [][\A c \in Clients :
          Subscribes(c)
          => /\ clientChannels'[c] = [Channel |-> Len(chans'[c]), LastSeen |-> now]
             /\ chans'[c][Len(chans'[c])].closed = FALSE
             /\ \A p \in Pollers :
                   (/\ Waiting(p) /\ polls[p].clientId = c
                    /\ Registered(c, polls[p].ch))
                   => clientChannels'[c].Channel = polls'[p].ch
             /\ \A k \in Channels(c) :
                   (Registered(c, k) /\ Pending(c, k))
                   => chans'[c][clientChannels'[c].Channel].buf = chans[c][k].buf]_vars
====
